---- MODULE Spec2Model ----
(***************************************************************************)
(* lookat: registry of canvases and histograms (lookat/__init__.py) and    *)
(* the canvas / pad handlers (lookat/canvashandler.py).                    *)
(*                                                                         *)
(* Coordinates are in tenths of the canvas size: 0.3 is 3, 1 is 10 and     *)
(* -0.9 is -9.  A python exception is the name of its class in the field   *)
(* exc of a call's result; "" means the call returned.                     *)
(***************************************************************************)
EXTENDS Integers, Sequences, FiniteSets, TLC

VARIABLES gCanvs, gHistos, gTrees, canvs, objs, gPad, legs, last

vars == <<gCanvs, gHistos, gTrees, canvs, objs, gPad, legs, last>>

(* ------------------------------ bounds -------------------------------- *)
\* canvases created in one run
MaxCanvs == 2
\* histogram objects created in one run
MaxObjs == 3
\* trees loaded in one run
MaxTrees == 1
\* primitives one pad lists
MaxPrims == 2
\* legends created in one run
MaxLegs == 2
MaxLayoutCanvs == 1
MaxTrackedCanvs == 3
NBins == 2
MaxEdgeBins == 5
MaxLow == 4
MaxWidth == 4
MaxContent == 2

(* --------------------------- list helpers ----------------------------- *)
Range(s) == {s[i] : i \in 1..Len(s)}

\* list.remove(x) for an x that is in the list: the first occurrence goes
RemoveAt(s, i) == SubSeq(s, 1, i - 1) \o SubSeq(s, i + 1, Len(s))

IndexOf(s, x) == CHOOSE i \in 1..Len(s) : s[i] = x /\ \A j \in 1..(i - 1) : s[j] # x

RemoveFirst(s, x) == RemoveAt(s, IndexOf(s, x))

(* ------------------------------ values -------------------------------- *)
\* an optional argument: <<>> is None, <<v>> is the value v
None == <<>>
Some(v) == <<v>>

\* gPad when there is no current pad (a null pointer)
NoPad == [c |-> 0, p |-> ""]

FullRect == <<0, 0, 10, 10>>

\* PadHandler.hide_pad places a pad below the visible area
HiddenRect == <<0, -9, 10, -1>>

\* ROOT's colour of a new histogram (kBlack) and the palette of _colorGenerator
DefaultColor == "kBlack"
base_colors == <<"kRed", "kGreen", "kBlue", "kCyan", "kMagenta">>

(* --------------------------- call results ----------------------------- *)
\* s: the program state the call leaves, exc: the exception it raised,
\* ret: what it returned
Ok(s) == [s |-> s, exc |-> "", ret |-> None]
Ret(s, v) == [s |-> s, exc |-> "", ret |-> Some(v)]
Raise(s, e) == [s |-> s, exc |-> e, ret |-> None]

\* 'r; F': what F makes of the result r, unless r raised
Then(r, F(_)) == IF r.exc # "" THEN r ELSE F(r)

\* a local name v for a value
With(v, F(_)) == F(v)

\* the program state as one record
St == [gCanvs |-> gCanvs, gHistos |-> gHistos, gTrees |-> gTrees,
       canvs |-> canvs, objs |-> objs, gPad |-> gPad, legs |-> legs]

(* ----------------------------- PadHandler ----------------------------- *)
\* a TPad handle is dead once the window of its canvas was closed: every
\* method call on it raises AttributeError
PadDead(s, c) == ~s.canvs[c].valid

NewPad(dim) == [rect |-> dim, title |-> "", xlabel |-> "", ylabel |-> "",
                prims |-> <<>>]

SetPadField(s, c, p, f, v) ==
    [s EXCEPT !.canvs[c].pads[p] = [@ EXCEPT ![f] = v]]

Pad_cd(s, c, p) ==
    IF PadDead(s, c) THEN Raise(s, "AttributeError")
    ELSE Ok([s EXCEPT !.gPad = [c |-> c, p |-> p]])

Pad_SetPad(s, c, p, dim) ==
    IF PadDead(s, c) THEN Raise(s, "AttributeError")
    ELSE Ok(SetPadField(s, c, p, "rect", dim))

\* set_text_strategy: get_primitives(_ts_types).next() raises StopIteration
\* when the pad lists no histogram
Pad_set_text_strategy(s, c, p) ==
    IF PadDead(s, c) THEN Raise(s, "AttributeError")
    ELSE IF s.canvs[c].pads[p].prims = <<>> THEN Raise(s, "StopIteration")
    ELSE Ok(s)

\* (mutant) Update and set_yrange catch another exception
TextStrategyCaughtNot == "KeyError"

\* 'except StopIteration:' around set_text_strategy()
TextStrategyCaught == "StopIteration"

\* Update pushes the stored texts to the first recognised primitive, if any
\* (StopIteration is caught); it changes nothing a PadHandler stores
Pad_Update(s, c, p) ==
    IF PadDead(s, c) THEN Raise(s, "AttributeError")
    ELSE With(Pad_set_text_strategy(s, c, p), LAMBDA r :
         IF r.exc = TextStrategyCaught THEN Ok(s) ELSE r)

Pad_full_pad(s, c, p) ==
    Then(Pad_cd(s, c, p), LAMBDA r1 :
        Pad_Update(SetPadField(r1.s, c, p, "rect", FullRect), c, p))

Pad_hide_pad(s, c, p) ==
    IF PadDead(s, c) THEN Raise(s, "AttributeError")
    ELSE Ok(SetPadField(s, c, p, "rect", HiddenRect))

\* names of the objects a pad lists
PrimNames(s, c, p) == {s.objs[s.canvs[c].pads[p].prims[i]].name :
                          i \in 1..Len(s.canvs[c].pads[p].prims)}

\* has_primitive: 'except ReferenceError or AttributeError' catches
\* ReferenceError (the null pointer GetPrimitive returns) only
Pad_has_primitive(s, c, p, name) ==
    IF PadDead(s, c) THEN Raise(s, "AttributeError")
    ELSE Ret(s, name \in PrimNames(s, c, p))

(* ---------------------------- CanvasHandler --------------------------- *)
PadNamesOf(s, c) == DOMAIN s.canvs[c].pads

Canvas_cd(s, c) == Pad_cd(s, c, "main")

\* every pad of a canvas shares the fate of its window, so the loop over
\* the pads raises at its first pad or at none
Canvas_Update(s, c) ==
    IF PadDead(s, c) THEN Raise(s, "AttributeError") ELSE Ok(s)

Canvas_GetName(s, c) ==
    IF ~s.canvs[c].valid THEN Raise(s, "AttributeError")
    ELSE Ret(s, s.canvs[c].name)

\* add_pad: self._canv.cd(), a new PadHandler under the key name, self.cd()
Canvas_add_pad(s, c, name, dim) ==
    IF ~s.canvs[c].valid THEN Raise(s, "AttributeError")
    ELSE LET pads == s.canvs[c].pads
             np   == [n \in (DOMAIN pads) \cup {name} |->
                        IF n = name THEN NewPad(dim) ELSE pads[n]]
         IN  Canvas_cd([s EXCEPT !.canvs[c].pads = np], c)

\* (mutant) the main pad keeps the full canvas
MainRatioRectFull == <<0, 0, 10, 10>>

\* (mutant) the ratio pad has no height
RatioRectFlat == <<0, 0, 10, 0>>

\* the rectangles cd_ratio gives the ratio pad and the main pad
RatioRect == <<0, 0, 10, 3>>
MainRatioRect == <<0, 3, 10, 10>>

\* (mutant) cd_ratio reports a new pad on every call
cd_ratio_return_True(new_pad) == TRUE

\* 'return new_pad'
cd_ratio_return(new_pad) == new_pad

\* the branch of cd_ratio that sets up the ratio pad
cd_ratio_setup(s, c) ==
    Then(Pad_SetPad(s, c, "main", MainRatioRect), LAMBDA r1 :
    Then(Canvas_add_pad(r1.s, c, "ratio", RatioRect), LAMBDA r2 :
        Ok(SetPadField(r2.s, c, "ratio", "ylabel", "ratio"))))

Canvas_cd_ratio(s, c) ==
    LET new_pad == "ratio" \notin PadNamesOf(s, c) IN
    Then(IF new_pad THEN cd_ratio_setup(s, c) ELSE Ok(s), LAMBDA r3 :
    Then(Canvas_Update(r3.s, c), LAMBDA r4 :
    Then(Pad_cd(r4.s, c, "ratio"), LAMBDA r5 :
        Ret([r5.s EXCEPT !.canvs[c].ncdr = IF @ < 2 THEN @ + 1 ELSE @],
            cd_ratio_return(new_pad)))))

\* push_texts stores the cached texts in the text pad
\* (mutant) the texts stay in the cache of the canvas
Canvas_push_texts_skip(s, c) == s

\* CanvasHandler.push_texts: the cached texts go to the text pad
Canvas_push_texts(s, c) ==
    LET cv == s.canvs[c]
    IN  [s EXCEPT !.canvs[c].pads[cv.text_pad] =
            [@ EXCEPT !.title  = cv.texts.title,
                      !.xlabel = cv.texts.xlabel,
                      !.ylabel = cv.texts.ylabel]]

\* (mutant) 'if title:' in place of 'if title != None:'
GivenTruthy(arg) == arg \notin {None, Some("")}

\* 'if title != None:'
Given(arg) == arg # None

Canvas_put_texts(s, c, title, xlabel, ylabel) ==
    LET tx == s.canvs[c].texts
        nt == [title  |-> IF Given(title)  THEN title[1]  ELSE tx.title,
               xlabel |-> IF Given(xlabel) THEN xlabel[1] ELSE tx.xlabel,
               ylabel |-> IF Given(ylabel) THEN ylabel[1] ELSE tx.ylabel]
    IN  Canvas_Update(Canvas_push_texts([s EXCEPT !.canvs[c].texts = nt], c), c)

\* (mutant) full_pad leaves the other pads where they are
HideOthersNot(s, c, name) == s

\* hide every pad but name (the pads are alive when this is reached)
HideOthers(s, c, name) ==
    [s EXCEPT !.canvs[c].pads =
        [n \in DOMAIN @ |-> IF n # name THEN [@[n] EXCEPT !.rect = HiddenRect]
                            ELSE @[n]]]

Canvas_full_pad(s, c, name) ==
    IF name \notin PadNamesOf(s, c) THEN Raise(s, "KeyError")
    ELSE Then(Pad_full_pad(s, c, name), LAMBDA r1 :
         With([r1.s EXCEPT !.canvs[c].text_pad = name,
                 !.canvs[c].texts.ylabel = r1.s.canvs[c].pads[name].ylabel],
              LAMBDA s2 :
         Canvas_Update(HideOthers(Canvas_push_texts(s2, c), c, name), c)))

\* (mutant) a new handler takes the ratio pad for its text pad
NewCanvasTextRatio(name) ==
    [valid |-> TRUE, name |-> name, pads |-> <<>>, text_pad |-> "ratio",
     texts |-> [title |-> "", xlabel |-> "", ylabel |-> ""], legend |-> 0,
     ncdr |-> 0]

\* CanvasHandler(name): a TCanvas, no legend, empty texts and the main pad.
\* ncdr is history, not program state: the number of cd_ratio() calls on
\* this canvas that returned, counted up to two.
NewCanvas(name) ==
    [valid |-> TRUE, name |-> name, pads |-> <<>>, text_pad |-> "main",
     texts |-> [title |-> "", xlabel |-> "", ylabel |-> ""], legend |-> 0,
     ncdr |-> 0]

\* the new handler is the last entry of canvs
Canvas_init(s, name) ==
    LET c == Len(s.canvs) + 1
    IN  Canvas_add_pad([s EXCEPT !.canvs = Append(@, NewCanvas(name))],
                       c, "main", FullRect)

(* ------------------------- names and gDirectory ----------------------- *)
\* A name template is a sequence of pieces; the piece "{0}" is the
\* placeholder of str.format.  '+name' is <<"+", "name">>.
PH == "{0}"

RECURSIVE Join(_, _, _)
\* h_name.format(n): the pieces in order, each placeholder replaced by n
Join(t, n, i) ==
    IF i > Len(t) THEN ""
    ELSE (IF t[i] = PH THEN ToString(n) ELSE t[i]) \o Join(t, n, i + 1)

Format(t, n) == Join(t, n, 1)

\* h_name.find('{0}') != -1
HasPH(t) == \E i \in 1..Len(t) : t[i] = PH

\* a new histogram object (a TH1F or TH2F, or the RatioTHnF around one).
\* bins holds the bin contents where they are followed and is <<>> where
\* only 'empty' (a sum of weights of 0) is.
NewObj(name, kind, ratio, empty, num, normalised) ==
    [name |-> name, kind |-> kind, ratio |-> ratio, alive |-> TRUE,
     empty |-> empty, lcolor |-> DefaultColor, mcolor |-> DefaultColor,
     num |-> num, normalised |-> normalised, pads |-> <<>>, bins |-> <<>>,
     yrange |-> <<>>]

\* the live objects gDirectory lists under a name
DirIds(s, name) == {i \in 1..Len(s.objs) : s.objs[i].alive /\ s.objs[i].name = name}

\* gDirectory.Get(name): the first object of that name, 0 for a null pointer
DirGet(s, name) ==
    IF DirIds(s, name) = {} THEN 0
    ELSE CHOOSE i \in DirIds(s, name) : \A j \in DirIds(s, name) : i <= j

\* type(gDirectory.Get(name))
DirType(s, name) == IF DirGet(s, name) = 0 THEN "null" ELSE s.objs[DirGet(s, name)].kind

RECURSIVE UniqueFrom(_, _, _)
\* the while loop of _get_unique_hname
UniqueFrom(s, t, n) ==
    IF DirType(s, Format(t, n)) # "TH1F" THEN Format(t, n)
    ELSE UniqueFrom(s, t, n + 1)

\* (mutant) the numbering starts at 0 whatever the registry holds
FirstIndexZero(s) == 0

\* the first index _get_unique_hname tries
FirstIndex(s) == Len(s.gHistos)

get_unique_hname(s, h_name) ==
    LET t == IF HasPH(h_name) THEN h_name ELSE h_name \o <<"_", PH>>
    IN  UniqueFrom(s, t, FirstIndex(s))

\* what is left of a deleted object: a handle every call on which raises
DeadObj == [NewObj("", "", FALSE, FALSE, 0, FALSE) EXCEPT !.alive = FALSE]

\* TObject.Delete: the object leaves gDirectory and every pad that lists it
DeleteObj(s, h) ==
    [s EXCEPT !.objs[h] = DeadObj,
              !.canvs = [c \in DOMAIN @ |->
                  [@[c] EXCEPT !.pads = [n \in DOMAIN @ |->
                      [@[n] EXCEPT !.prims = SelectSeq(@, LAMBDA x : x # h)]]]]]

(* ------------------------------- cleanup ------------------------------ *)
RECURSIVE CleanLoop(_, _, _)
\* 'for canv in gCanvs: if canv.canv == None: gCanvs.remove(canv)': the
\* iterator keeps its index while the list shrinks under it
CleanLoop(s, lst, i) ==
    IF i > Len(lst) THEN lst
    ELSE IF ~s.canvs[lst[i]].valid
         THEN CleanLoop(s, RemoveFirst(lst, lst[i]), i + 1)
         ELSE CleanLoop(s, lst, i + 1)

\* the order in which a canvas's pads are visited
AllPadNames == <<"main", "ratio", "aux">>
PadSeq(s, c) == SelectSeq(AllPadNames, LAMBDA n : n \in PadNamesOf(s, c))

\* h.GetName() of a registry entry
Histo_GetName(s, h) ==
    IF ~s.objs[h].alive THEN Raise(s, "AttributeError")
    ELSE Ret(s, s.objs[h].name)

RECURSIVE ScanLoop(_, _, _, _, _)
\* the three nested loops that take the hosted objects out of orphaned;
\* the result is [exc, orphaned]
ScanLoop(s, ci, pi, hi, orphaned) ==
    IF ci > Len(s.gCanvs) THEN [exc |-> "", orphaned |-> orphaned]
    ELSE LET c == s.gCanvs[ci] IN
      IF pi > Len(PadSeq(s, c)) THEN ScanLoop(s, ci + 1, 1, 1, orphaned)
      ELSE IF hi > Len(s.gHistos) THEN ScanLoop(s, ci, pi + 1, 1, orphaned)
      ELSE LET h  == s.gHistos[hi]
               rn == Histo_GetName(s, h)
               rp == Pad_has_primitive(s, c, PadSeq(s, c)[pi], rn.ret[1])
           IN  IF rn.exc # "" THEN [exc |-> rn.exc, orphaned |-> orphaned]
               ELSE IF rp.exc # "" THEN [exc |-> rp.exc, orphaned |-> orphaned]
               ELSE IF ~rp.ret[1] THEN ScanLoop(s, ci, pi, hi + 1, orphaned)
               ELSE IF h \notin Range(orphaned)
                    THEN [exc |-> "ValueError", orphaned |-> orphaned]
               ELSE ScanLoop(s, ci, pi, hi + 1, RemoveFirst(orphaned, h))

RECURSIVE RemoveLoop(_, _, _)
\* 'for h in orphaned: gHistos.remove(h); h.Delete()'; Delete on a dead
\* handle raises AttributeError, which the except clause does not catch
RemoveLoop(s, orphaned, i) ==
    IF i > Len(orphaned) THEN Ok(s)
    ELSE LET h  == orphaned[i]
             s1 == [s EXCEPT !.gHistos = RemoveFirst(@, h)]
         IN  IF ~s.objs[h].alive THEN Raise(s1, "AttributeError")
             ELSE RemoveLoop(DeleteObj(s1, h), orphaned, i + 1)

\* (mutant) every pass collects the histograms
cleanup_histos_always(s, include_histos) ==
    LET s1 == [s EXCEPT !.gCanvs = CleanLoop(s, s.gCanvs, 1)]
        sc == ScanLoop(s1, 1, 1, 1, s1.gHistos)
    IN  IF sc.exc # "" THEN Raise(s1, sc.exc)
        ELSE RemoveLoop(s1, sc.orphaned, 1)

cleanup(s, include_histos) ==
    LET s1 == [s EXCEPT !.gCanvs = CleanLoop(s, s.gCanvs, 1)]
        sc == ScanLoop(s1, 1, 1, 1, s1.gHistos)
    IN  IF ~include_histos THEN Ok(s1)
        ELSE IF sc.exc # "" THEN Raise(s1, sc.exc)
        ELSE RemoveLoop(s1, sc.orphaned, 1)

(* ----------------------- active_canvas, active_pad -------------------- *)
Last(seq) == seq[Len(seq)]

\* TPad.GetName of the pad p of canvas c: '<canvas name>_<pad name>'
PadName(s, c, p) == s.canvs[c].name \o "_" \o p

RECURSIVE ActiveCanvasLoop(_, _)
\* 'for canv in gCanvs: if canv.GetName() == active_name: return canv'
ActiveCanvasLoop(s, i) ==
    IF i > Len(s.gCanvs) THEN Ok(s)
    ELSE LET rn == Canvas_GetName(s, s.gCanvs[i]) IN
         IF rn.exc # "" THEN rn
         ELSE IF rn.ret[1] = s.canvs[s.gPad.c].name THEN Ret(s, s.gCanvs[i])
         ELSE ActiveCanvasLoop(s, i + 1)

\* a null gPad raises ReferenceError on GetCanvas() / GetName()
active_canvas(s) ==
    With(cleanup(s, FALSE).s, LAMBDA s1 :
        IF s1.gPad = NoPad THEN Raise(s1, "ReferenceError")
        ELSE ActiveCanvasLoop(s1, 1))

RECURSIVE ActivePadLoop(_, _, _)
\* the two loops of active_pad; pad.GetName() on a dead pad raises
ActivePadLoop(s, ci, pi) ==
    IF ci > Len(s.gCanvs) THEN Ok(s)
    ELSE LET c == s.gCanvs[ci] IN
         IF pi > Len(PadSeq(s, c)) THEN ActivePadLoop(s, ci + 1, 1)
         ELSE IF PadDead(s, c) THEN Raise(s, "AttributeError")
         ELSE IF PadName(s, c, PadSeq(s, c)[pi]) = PadName(s, s.gPad.c, s.gPad.p)
              THEN Ret(s, [c |-> c, p |-> PadSeq(s, c)[pi]])
         ELSE ActivePadLoop(s, ci, pi + 1)

active_pad(s) ==
    With(cleanup(s, FALSE).s, LAMBDA s1 :
        IF s1.gPad = NoPad THEN Raise(s1, "ReferenceError")
        ELSE ActivePadLoop(s1, 1, 1))

(* --------------------------- canvas(), th1f() ------------------------- *)
\* TCanvas() names its canvas itself; the names differ from one another
AutoName(s) == "c" \o ToString(Len(s.canvs) + 1)

canvas(s) ==
    With(cleanup(s, FALSE).s, LAMBDA s1 :
    Then(Canvas_init(s1, AutoName(s1)), LAMBDA r2 :
        Ret([r2.s EXCEPT !.gCanvs = Append(@, Len(r2.s.canvs))],
            Len(r2.s.canvs))))

\* (mutant) th1f puts the new histogram at the head of gHistos
th1f_front(s, h_name) ==
    LET s1 == [s EXCEPT !.objs = Append(@, NewObj(h_name, "TH1F", FALSE, TRUE, 0, FALSE))]
    IN  Ret([s1 EXCEPT !.gHistos = <<Len(s1.objs)>> \o @], Len(s1.objs))

\* th1f(h_name, binning) with a well-formed binning: an empty TH1F
th1f(s, h_name) ==
    LET s1 == [s EXCEPT !.objs = Append(@, NewObj(h_name, "TH1F", FALSE, TRUE, 0, FALSE))]
    IN  Ret([s1 EXCEPT !.gHistos = Append(@, Len(s1.objs))], Len(s1.objs))

\* module-level put_texts
put_texts(s, title, xlabel, ylabel) ==
    IF Len(s.gCanvs) = 0 THEN Raise(s, "IndexError")
    ELSE Canvas_put_texts(s, Last(s.gCanvs), title, xlabel, ylabel)

(* -------------------------------- draw -------------------------------- *)
\* var is the sequence of the expressions that ':' separates
RECURSIVE VarStrFrom(_, _)
VarStrFrom(var, i) ==
    IF i > Len(var) THEN ""
    ELSE (IF i > 1 THEN ":" ELSE "") \o var[i] \o VarStrFrom(var, i + 1)

VarStr(var) == VarStrFrom(var, 1)

\* TObject.Draw(option) on the current pad: without 'same' the pad is
\* cleared first
DrawOnPad(s, h, draw_opts) ==
    LET c == s.gPad.c
        p == s.gPad.p
    IN  [s EXCEPT !.canvs[c].pads[p].prims =
            IF draw_opts = "same" THEN Append(@, h) ELSE <<h>>]

\* a pad's first TH1F: get_primitives(TH1F).next() raises StopIteration
\* when there is none
HasTH1F(s, c, p) ==
    \E i \in 1..Len(s.canvs[c].pads[p].prims) :
        s.objs[s.canvs[c].pads[p].prims[i]].kind = "TH1F"

prepare_drawopts(s, n_dim) ==
    IF n_dim = 2 THEN Ret(s, "colz")
    ELSE Then(active_pad(s), LAMBDA ra :
         IF ra.ret = None THEN Raise(ra.s, "AttributeError")
         ELSE Ret(ra.s, IF HasTH1F(ra.s, ra.ret[1].c, ra.ret[1].p)
                        THEN "same" ELSE "Ep"))

\* tree.Draw(var >> name + h_cfg, select, draw_opts): the histogram it
\* fills.  '+name' fills the existing histogram; a name with a binning
\* (the 1-D default "(40)") replaces an existing object of that name, a
\* name without one (2-D) refills it.  The tree has events that pass the
\* selection, so the histogram it filled is not empty.
TreeDraw(s, name, append, n_dim, draw_opts) ==
    LET old  == DirGet(s, name)
        kind == IF n_dim = 2 THEN "TH2F" ELSE "TH1F"
        new  == NewObj(name, kind, FALSE, FALSE, 0, FALSE)
    IN  IF append \/ (old # 0 /\ n_dim = 2)
        THEN DrawOnPad([s EXCEPT !.objs[old].empty = FALSE], old, draw_opts)
        ELSE LET s1 == IF old # 0 THEN DeleteObj(s, old) ELSE s
                 s2 == [s1 EXCEPT !.objs = Append(@, new)]
             IN  DrawOnPad(s2, Len(s2.objs), draw_opts)

\* gPad.GetPrimitive(name): the first primitive of that name on the pad
PadGetPrimitive(s, name) ==
    LET prims == s.canvs[s.gPad.c].pads[s.gPad.p].prims
        idx   == {i \in 1..Len(prims) : s.objs[prims[i]].name = name}
    IN  IF idx = {} THEN 0 ELSE prims[CHOOSE i \in idx : \A j \in idx : i <= j]

\* (mutant) draw() forgets to register the histogram
StoreHistoNot(lst, h) == lst

\* the list draw() appends the new histogram to
StoreHisto(lst, h) == Append(lst, h)

draw(s, var, h_name) ==
    LET n_dim  == Len(var)
        append == h_name[1] = "+"
    IN
    With(cleanup(s, FALSE).s, LAMBDA s1 :
    Then(IF Len(s1.gCanvs) = 0 THEN canvas(s1) ELSE Ok(s1), LAMBDA r2 :
    Then(Canvas_cd(r2.s, Last(r2.s.gCanvs)), LAMBDA r3 :
    IF n_dim > 2 THEN Raise(r3.s, "NotImplementedError") ELSE
    With(IF HasPH(h_name) THEN get_unique_hname(r3.s, h_name)
         ELSE Format(h_name, 0), LAMBDA name :
    With(IF append THEN Format(Tail(h_name), 0) ELSE name, LAMBDA bare :
    Then(prepare_drawopts(r3.s, n_dim), LAMBDA r4 :
    IF r4.s.gTrees = 0 THEN Raise(r4.s, "IndexError") ELSE
    With(TreeDraw(r4.s, bare, append, n_dim, r4.ret[1]), LAMBDA s5 :
    With(PadGetPrimitive(s5, bare), LAMBDA h :
    Then(put_texts(IF append THEN s5
                   ELSE [s5 EXCEPT !.gHistos = StoreHisto(@, h)],
                   None, Some(VarStr(var)), None), LAMBDA r7 :
        Ret(r7.s, h))))))))))

(* ------------------------ RatioTHnF, draw_ratio ----------------------- *)
\* the y-range RatioTHnF.Draw gives a normalised ratio, in tenths
RatioYmax == 21

\* PadHandler.set_yrange: the range goes to the y axis of the first
\* recognised primitive, if there is one; the PadHandler stores nothing of it
Pad_set_yrange(s, c, p, y_min, y_max) ==
    With(Pad_set_text_strategy(s, c, p), LAMBDA r :
        IF r.exc = TextStrategyCaught THEN Ok(s)
        ELSE IF r.exc # "" THEN r
        ELSE Ok([s EXCEPT !.objs[s.canvs[c].pads[p].prims[1]].yrange =
                    <<y_min, y_max>>]))

RECURSIVE SumBins(_, _)
SumBins(b, i) == IF i > Len(b) THEN 0 ELSE b[i] + SumBins(b, i + 1)

\* h.GetSumOfWeights()
GetSumOfWeights(o) ==
    IF o.bins = <<>> THEN (IF o.empty THEN 0 ELSE 1) ELSE SumBins(o.bins, 1)

\* a quotient p/q of naturals, q > 0, in lowest terms
RECURSIVE GCD(_, _)
GCD(a, b) == IF b = 0 THEN a ELSE GCD(b, a % b)
Frac(p, q) == <<p \div GCD(p, q), q \div GCD(p, q)>>

\* '1.0/h.GetSumOfWeights()': the weight 1/sum
SumOfWeightsInv(s, h) ==
    IF s.objs[h].ratio \/ ~s.objs[h].alive THEN Raise(s, "AttributeError")
    ELSE IF GetSumOfWeights(s.objs[h]) = 0 THEN Raise(s, "ZeroDivisionError")
    ELSE Ret(s, Frac(1, GetSumOfWeights(s.objs[h])))

\* (mutant) a bin with a denominator of 0 is given 1
BinRatioOne(b1, b2, c1, c2) ==
    IF b2 = 0 THEN <<1, 1>>
    ELSE Frac(c1[1] * b1 * c2[2], c1[2] * c2[1] * b2)

\* one bin of TH1.Divide(h1, h2, c1, c2): c1*b1/(c2*b2), and 0 where b2 is 0
BinRatio(b1, b2, c1, c2) ==
    IF b2 = 0 THEN <<0, 1>>
    ELSE Frac(c1[1] * b1 * c2[2], c1[2] * c2[1] * b2)

\* self._ratio.Divide(h_num, h_denum, weight_num, weight_denum)
TH1_Divide(num, denum, c1, c2) ==
    IF num.bins = <<>> \/ denum.bins = <<>> THEN <<>>
    ELSE [i \in 1..Len(num.bins) |-> BinRatio(num.bins[i], denum.bins[i], c1, c2)]

\* RatioTHnF.__init__: the clone is named and listed before the weights
\* are computed, so it stays behind when the constructor raises
RatioTHnF_init(s, h_num, h_denum, normalised) ==
    LET num   == s.objs[h_num]
        denum == s.objs[h_denum]
        new   == [NewObj(get_unique_hname(s, <<"ratio_", PH>>), num.kind, TRUE,
                         num.empty, h_num, normalised)
                     EXCEPT !.lcolor = num.lcolor, !.mcolor = num.mcolor,
                            !.bins = num.bins]
    IN
    IF num.ratio \/ ~num.alive THEN Raise(s, "AttributeError") ELSE
    With([s EXCEPT !.objs = Append(@, new)], LAMBDA s1 :
    Then(IF normalised THEN SumOfWeightsInv(s1, h_num)
         ELSE Ret(s1, <<1, 1>>), LAMBDA rn :
    Then(IF normalised THEN SumOfWeightsInv(s1, h_denum)
         ELSE Ret(s1, <<1, 1>>), LAMBDA rd :
    IF denum.ratio \/ ~denum.alive THEN Raise(s1, "TypeError") ELSE
    Ret([s1 EXCEPT !.objs[Len(s1.objs)].bins =
            TH1_Divide(num, denum, rn.ret[1], rd.ret[1])],
        Len(s1.objs)))))

\* RatioTHnF.Draw
Ratio_Draw(s, h, draw_opts) ==
    Then(active_pad(DrawOnPad(s, h, draw_opts)), LAMBDA ra :
    With(ra.ret, LAMBDA pad :
    With(IF \E i \in 1..Len(ra.s.objs[h].pads) : ra.s.objs[h].pads[i] = pad
         THEN ra.s
         ELSE [ra.s EXCEPT !.objs[h].pads = Append(@, pad)], LAMBDA s2 :
    IF pad = None THEN Raise(s2, "AttributeError") ELSE
    Then(IF s2.objs[h].normalised
         THEN Pad_set_yrange(s2, pad[1].c, pad[1].p, 0, RatioYmax)
         ELSE Ok(s2), LAMBDA r3 :
        Pad_Update(r3.s, pad[1].c, pad[1].p)))))

\* whether pad.GetName() raises AttributeError: the entry is None or its
\* TPad went with the window of its canvas
StalePad(s, pad) == pad = None \/ PadDead(s, pad[1].c)

RECURSIVE CleanPadsLoop(_, _, _)
\* 'for pad in self._pads: try: pad.GetName() except AttributeError:
\* self._pads.remove(pad)': the loop goes on at the next index of the list
\* it has just shortened
CleanPadsLoop(s, pads, i) ==
    IF i > Len(pads) THEN pads
    ELSE IF StalePad(s, pads[i])
         THEN CleanPadsLoop(s, RemoveFirst(pads, pads[i]), i + 1)
         ELSE CleanPadsLoop(s, pads, i + 1)

\* RatioTHnF.clean_pads
Ratio_clean_pads(s, h) == [s EXCEPT !.objs[h].pads = CleanPadsLoop(s, @, 1)]

RECURSIVE YrangeLoop(_, _, _, _, _)
\* 'for pad in self._pads: pad.set_yrange(y_min, y_max)'
YrangeLoop(s, h, i, y_min, y_max) ==
    IF i > Len(s.objs[h].pads) THEN Ok(s)
    ELSE IF s.objs[h].pads[i] = None THEN Raise(s, "AttributeError")
    ELSE Then(Pad_set_yrange(s, s.objs[h].pads[i][1].c, s.objs[h].pads[i][1].p,
                             y_min, y_max),
              LAMBDA r : YrangeLoop(r.s, h, i + 1, y_min, y_max))

\* RatioTHnF.set_yrange
Ratio_set_yrange(s, h, y_min, y_max) ==
    YrangeLoop(Ratio_clean_pads(s, h), h, 1, y_min, y_max)

draw_ratio(s, h_num, h_denum, canv, normalised) ==
    LET old_pad == s.gPad
        num     == IF h_num = None THEN Last(s.gHistos) ELSE h_num[1]
        denum   == IF h_denum = None THEN s.gHistos[Len(s.gHistos) - 1] ELSE h_denum[1]
    IN
    IF s.gPad = NoPad THEN Raise(s, "ReferenceError")
    ELSE IF h_num = None /\ Len(s.gHistos) < 1 THEN Raise(s, "IndexError")
    ELSE IF h_denum = None /\ Len(s.gHistos) < 2 THEN Raise(s, "IndexError")
    ELSE
    Then(IF canv = None THEN active_canvas(s) ELSE Ret(s, canv[1]), LAMBDA rc :
    IF rc.ret = None THEN Raise(rc.s, "AttributeError") ELSE
    Then(Canvas_cd_ratio(rc.s, rc.ret[1]), LAMBDA r1 :
    With(r1.s.objs[num].kind = "TH2F" /\ ~r1.s.objs[num].ratio, LAMBDA is2d :
    Then(IF is2d THEN Canvas_full_pad(r1.s, rc.ret[1], "ratio") ELSE r1, LAMBDA r2 :
    Then(RatioTHnF_init(r2.s, num, denum, normalised), LAMBDA r3 :
    Then(Ratio_Draw(r3.s, r3.ret[1],
                    IF is2d THEN "colz" ELSE IF r1.ret[1] THEN "Ep" ELSE "same"),
         LAMBDA r4 :
        Ret([r4.s EXCEPT !.gHistos = Append(@, r3.ret[1]), !.gPad = old_pad],
            r3.ret[1])))))))

(* ------------------------------ add_legend ---------------------------- *)
\* colors = [nextColor() for _ in range(len(labels))]
DefaultColors(n) == [i \in 1..n |-> base_colors[((i - 1) % Len(base_colors)) + 1]]

\* (mutant) past the end of colors the list starts again
SetColorsWrap(s, h, colors, i) ==
    IF colors = <<>> THEN s
    ELSE [s EXCEPT !.objs[h].mcolor = colors[((i - 1) % Len(colors)) + 1],
                   !.objs[h].lcolor = colors[((i - 1) % Len(colors)) + 1]]

\* 'try: h.SetMarkerColor(colors[i]); h.SetLineColor(colors[i])
\*  except IndexError: pass'
SetColors(s, h, colors, i) ==
    IF i > Len(colors) THEN s
    ELSE [s EXCEPT !.objs[h].mcolor = colors[i], !.objs[h].lcolor = colors[i]]

RECURSIVE LegendLoop(_, _, _, _, _)
\* 'for i, h in enumerate(primitives)': labels[i] outside the list raises
\* IndexError, colors[i] outside the list is caught and the colour stays
LegendLoop(s, primitives, i, labels, colors) ==
    IF i > Len(primitives) THEN Ok(s)
    ELSE IF i > Len(labels) THEN Raise(s, "IndexError")
    ELSE LegendLoop(SetColors(s, primitives[i], colors, i), primitives, i + 1,
                    labels, colors)

\* (mutant) the legend that is replaced stays
DeleteLegendNot(s, old) == s

\* 'if self._legend != None: self._legend.Delete()'
DeleteLegend(s, old) ==
    IF old # 0 THEN [s EXCEPT !.legs[old] = @ + 1] ELSE s

\* legs[k] counts the Delete() calls on the k-th TLegend
Canvas_add_legend(s, c, labels, colors) ==
    LET cols == IF colors = None THEN DefaultColors(Len(labels)) ELSE colors[1]
        old  == s.canvs[c].legend
    IN
    With([s EXCEPT !.legs = Append(@, 0)], LAMBDA s1 :
    IF PadDead(s1, c) THEN Raise(s1, "AttributeError") ELSE
    Then(LegendLoop(s1, s1.canvs[c].pads["main"].prims, 1, labels, cols), LAMBDA r2 :
        Ret([DeleteLegend(r2.s, old) EXCEPT !.canvs[c].legend = Len(s1.legs)],
            Len(s1.legs))))

(* ------------------------ the window of a canvas ---------------------- *)
\* The user closes the window of canvas c: the TCanvas handle compares equal
\* to None from then on, its pads are gone, and gPad is null when it was on
\* that canvas.
CloseCanvasWindow(s, c) ==
    [s EXCEPT !.canvs[c].valid = FALSE,
              !.canvs[c].pads = [n \in DOMAIN @ |-> [@[n] EXCEPT !.prims = <<>>]],
              !.gPad = IF @.c = c THEN NoPad ELSE @]

(* --------------- __repr__, SaveAs, Close, exit_handler ---------------- *)
RECURSIVE JoinPadNames(_, _, _, _)
\* 'for pad in self._pads.itervalues(): out_string += pad.GetName()+", "',
\* less the last ", " that out_string[:-2] cuts
JoinPadNames(s, c, names, i) ==
    IF i > Len(names) THEN ""
    ELSE PadName(s, c, names[i]) \o (IF i < Len(names) THEN ", " ELSE "")
         \o JoinPadNames(s, c, names, i + 1)

ShellMarker == "<CanvasHandler object -- empty shell only!>"

\* (mutant) __repr__ catches another exception
ReprCaughtNot == "ReferenceError"

\* 'except AttributeError:' around self._canv.GetName() in __repr__
ReprCaught == "AttributeError"

\* CanvasHandler.__repr__
Canvas_repr(s, c) ==
    With(Canvas_GetName(s, c), LAMBDA rn :
        IF rn.exc = ReprCaught THEN Ret(s, ShellMarker)
        ELSE IF rn.exc # "" THEN rn
        ELSE Ret(s, "<CanvasHandler object (\"" \o rn.ret[1] \o "\" with {"
                    \o JoinPadNames(s, c, PadSeq(s, c), 1) \o "} )>"))

\* CanvasHandler.SaveAs: self._canv.SaveAs(...) writes files only
Canvas_SaveAs(s, c) ==
    IF ~s.canvs[c].valid THEN Raise(s, "AttributeError") ELSE Ok(s)

\* CanvasHandler.Close: AttributeError is caught
Canvas_Close(s, c) ==
    IF ~s.canvs[c].valid THEN Ok(s) ELSE Ok(CloseCanvasWindow(s, c))

RECURSIVE CloseLoop(_, _)
\* 'for c in gCanvs: c.Close()'
CloseLoop(s, i) ==
    IF i > Len(s.gCanvs) THEN Ok(s)
    ELSE Then(Canvas_Close(s, s.gCanvs[i]), LAMBDA r : CloseLoop(r.s, i + 1))

exit_handler(s) == CloseLoop(cleanup(s, FALSE).s, 1)

(* ------------------------------- inputs ------------------------------- *)
Vars == {<<"x">>, <<"y", "x">>, <<"z", "y", "x">>}
DefaultTemplate == <<"myHist_", PH>>
Templates == {DefaultTemplate, <<"ratio_", PH>>, <<"h_", PH>>, <<"h">>}
HistNames == {"h_1"}
Texts == {"", "t"}
OptTexts == {None} \cup {Some(x) : x \in Texts}
LabelLists == {<<>>, <<"a">>, <<"a", "b">>}
ColorLists == {None, Some(<<>>), Some(<<"kRed">>)}

\* the histograms draw() may fill with '+name': live TH1F / TH2F of the
\* dimension of var that are no ratio
Appendable(n_dim) ==
    {objs[i].name : i \in {j \in 1..Len(objs) :
        /\ objs[j].alive /\ ~objs[j].ratio
        /\ objs[j].kind = (IF n_dim = 2 THEN "TH2F" ELSE "TH1F")}}

(* --------------------------- the state machine ------------------------ *)
WithinBoundsFor(s, max_canvs) ==
    /\ Len(s.canvs) <= max_canvs
    /\ Len(s.objs) <= MaxObjs
    /\ Len(s.gHistos) <= MaxObjs
    /\ Len(s.legs) <= MaxLegs
    /\ \A c \in 1..Len(s.canvs) : \A n \in DOMAIN s.canvs[c].pads :
           Len(s.canvs[c].pads[n].prims) <= MaxPrims

WithinBounds(s) == WithinBoundsFor(s, MaxCanvs)

\* A CanvasHandler that left gCanvs is garbage: the registry was its only
\* reference, and no command reaches it again.
Garbage == [valid |-> FALSE, name |-> "", pads |-> <<>>, text_pad |-> "",
            texts |-> [title |-> "", xlabel |-> "", ylabel |-> ""], legend |-> 0,
            ncdr |-> 0]

Collect(s) ==
    [s EXCEPT !.canvs = [c \in DOMAIN @ |->
        IF c \in Range(s.gCanvs) THEN @[c] ELSE Garbage]]

\* whether, in state s, a pad of one of the canvases cs lists an object of
\* the name of h (a deleted object has no name)
HostedIn(s, cs, h) ==
    /\ s.objs[h].alive
    /\ \E i \in 1..Len(cs) : \E n \in PadNamesOf(s, cs[i]) :
           s.objs[h].name \in PrimNames(s, cs[i], n)

\* what the last command was, what it got and what it gave
Obs(op, c, arg, r, pre) ==
    [op |-> op, c |-> c, arg |-> arg, exc |-> r.exc, ret |-> r.ret, pre |-> pre]

CommitFor(r, obs, max_canvs) ==
    /\ WithinBoundsFor(r.s, max_canvs)
    /\ gCanvs' = r.s.gCanvs
    /\ gHistos' = r.s.gHistos
    /\ gTrees' = r.s.gTrees
    /\ canvs' = Collect(r.s).canvs
    /\ objs' = r.s.objs
    /\ gPad' = r.s.gPad
    /\ legs' = r.s.legs
    /\ last' = obs

Commit(r, obs) == CommitFor(r, obs, MaxCanvs)

Init ==
    /\ gCanvs = <<>>
    /\ gHistos = <<>>
    /\ gTrees = 0
    /\ canvs = <<>>
    /\ objs = <<>>
    /\ gPad = NoPad
    /\ legs = <<>>
    /\ last = [op |-> "init", c |-> 0, arg |-> <<>>, exc |-> "", ret |-> None,
               pre |-> <<>>]

\* load(name) or create_chain(name, files)
LoadCmd ==
    /\ gTrees < MaxTrees
    /\ Commit(Ok([St EXCEPT !.gTrees = @ + 1]), Obs("load", 0, <<>>, Ok(St), <<>>))

CanvasCmd ==
    LET r == canvas(St)
    IN  Commit(r, Obs("canvas", 0, <<>>, Ok(St), <<>>))

Th1fCmd ==
    \E h_name \in HistNames :
        /\ DirGet(St, h_name) = 0
        /\ LET r == th1f(St, h_name)
           IN  Commit(r, Obs("th1f", 0, <<h_name>>, Ok(St), <<>>))

CleanupCmd ==
    \E include_histos \in BOOLEAN :
        LET r == cleanup(St, include_histos)
        IN  Commit(r, Obs("cleanup", 0, <<include_histos>>, r,
                          [gCanvs |-> gCanvs, gHistos |-> gHistos,
                           valid  |-> {c \in Range(gCanvs) : canvs[c].valid},
                           hosted |-> {h \in Range(gHistos) :
                                          HostedIn(St, r.s.gCanvs, h)}]))

DrawCmd ==
    \E var \in Vars :
      \E h_name \in {DefaultTemplate} \cup {<<"+", n>> : n \in Appendable(Len(var))} :
        LET r == draw(St, var, h_name)
            n == IF r.exc = "" THEN Ret(r.s, r.s.objs[r.ret[1]].name) ELSE r
        IN  Commit(r, Obs("draw", 0, <<var, h_name>>, n,
                          [len    |-> Len(gHistos),
                           second |-> /\ last.op = "draw" /\ last.exc = ""
                                      /\ last.pre.len = 0
                                      /\ HasPH(h_name) /\ last.arg[2] = h_name]))

DrawRatioCmd ==
    \E normalised \in BOOLEAN :
        LET r == draw_ratio(St, None, None, None, normalised)
        IN  Commit(r, Obs("draw_ratio", 0, <<normalised>>, r, <<>>))

CloseWindow ==
    \E c \in 1..Len(canvs) :
        /\ canvs[c].valid
        /\ Commit(Ok(CloseCanvasWindow(St, c)), Obs("close_window", c, <<>>, Ok(St), <<>>))

Next ==
    \/ LoadCmd
    \/ CanvasCmd
    \/ Th1fCmd
    \/ CleanupCmd
    \/ DrawCmd
    \/ DrawRatioCmd
    \/ CloseWindow

Spec == Init /\ [][Next]_vars

(* ------------------- the methods of a CanvasHandler ------------------- *)
\* The handlers the user holds are those of gCanvs; pre is what the call
\* found of the handler.
CdCmd ==
    \E c \in Range(gCanvs) :
        LET r == Canvas_cd(St, c)
        IN  Commit(r, Obs("cd", c, <<>>, r, <<>>))

CdRatioCmd ==
    \E c \in Range(gCanvs) :
        LET r == Canvas_cd_ratio(St, c)
        IN  Commit(r, Obs("cd_ratio", c, <<>>, r,
                          [pads |-> PadNamesOf(St, c), ncdr |-> canvs[c].ncdr]))

FullPadCmd ==
    \E c \in Range(gCanvs) : \E name \in Range(AllPadNames) :
        LET r == Canvas_full_pad(St, c, name)
        IN  Commit(r, Obs("full_pad", c, <<name>>, r, <<>>))

PutTextsCmd ==
    \E c \in Range(gCanvs) : \E title \in OptTexts, xlabel \in OptTexts, ylabel \in OptTexts :
        LET r == Canvas_put_texts(St, c, title, xlabel, ylabel)
        IN  Commit(r, Obs("put_texts", c, <<title, xlabel, ylabel>>, r,
                          [texts    |-> canvs[c].texts,
                           text_pad |-> canvs[c].text_pad,
                           rects    |-> [n \in PadNamesOf(St, c) |->
                                            canvs[c].pads[n].rect]]))

AddLegendCmd ==
    \E c \in Range(gCanvs) : \E labels \in LabelLists, colors \in ColorLists :
        LET r == Canvas_add_legend(St, c, labels, colors)
        IN  Commit(r, Obs("add_legend", c, <<>>, r, <<>>))

\* canvas(), for as many canvases as the layout is studied on
LayoutCanvasCmd ==
    /\ Len(canvs) < MaxLayoutCanvs
    /\ LET r == canvas(St)
       IN  Commit(r, Obs("canvas", 0, <<>>, Ok(St), <<>>))

NextCanvas ==
    \/ LayoutCanvasCmd
    \/ CdCmd
    \/ CdRatioCmd
    \/ FullPadCmd
    \/ PutTextsCmd
    \/ AddLegendCmd
    \/ CloseWindow

SpecCanvas == Init /\ [][NextCanvas]_vars

(* ------------------- texts with more than one canvas ------------------ *)
\* the module-level put_texts(title, xlabel, ylabel), remembering the texts
\* every canvas of gCanvs had
ModulePutTextsCmd ==
    \E title \in OptTexts, xlabel \in OptTexts, ylabel \in OptTexts :
        LET r == put_texts(St, title, xlabel, ylabel)
        IN  Commit(r, Obs("lookat.put_texts", 0, <<title, xlabel, ylabel>>, r,
                          [texts |-> [c \in Range(gCanvs) |-> canvs[c].texts]]))

NextTexts ==
    \/ CanvasCmd
    \/ CdCmd
    \/ ModulePutTextsCmd
    \/ CloseWindow

SpecTexts == Init /\ [][NextTexts]_vars

(* ------------------- the pads a ratio was drawn onto ------------------ *)
\* the ratios the user holds: the live RatioTHnF of gHistos
Ratios == {h \in Range(gHistos) : objs[h].alive /\ objs[h].ratio}

\* the y-range every object has
Yranges == [k \in DOMAIN objs |-> objs[k].yrange]

\* draw('x'): the histograms the ratios are made of
TrackedDrawCmd ==
    LET r == draw(St, <<"x">>, DefaultTemplate)
    IN  Commit(r, Obs("draw", 0, <<<<"x">>, DefaultTemplate>>, r, <<>>))

\* canvas(), with up to MaxTrackedCanvs canvases
TrackedCanvasCmd ==
    LET r == canvas(St)
    IN  CommitFor(r, Obs("canvas", 0, <<>>, Ok(St), <<>>), MaxTrackedCanvs)

\* the user closes a window
TrackedCloseWindow ==
    \E c \in 1..Len(canvs) :
        /\ canvs[c].valid
        /\ CommitFor(Ok(CloseCanvasWindow(St, c)),
                     Obs("close_window", c, <<>>, Ok(St), <<>>), MaxTrackedCanvs)

\* ratio.Draw(draw_opts) on the active pad
RatioDrawCmd ==
    \E h \in Ratios : \E draw_opts \in {"same", "Ep"} :
        /\ gPad # NoPad
        /\ LET r == Ratio_Draw(St, h, draw_opts)
           IN  CommitFor(r, Obs("Draw", h, <<draw_opts>>, r,
                               [pads |-> objs[h].pads, gPad |-> gPad,
                                yranges |-> Yranges]),
                         MaxTrackedCanvs)

\* ratio.set_yrange(0, 0.5)
RatioSetYrangeCmd ==
    \E h \in Ratios :
        LET r == Ratio_set_yrange(St, h, 0, 5)
        IN  CommitFor(r, Obs("set_yrange", h, <<0, 5>>, r,
                            [pads |-> objs[h].pads, yranges |-> Yranges]),
                      MaxTrackedCanvs)

NextTracked ==
    \/ LoadCmd
    \/ TrackedDrawCmd
    \/ DrawRatioCmd
    \/ TrackedCanvasCmd
    \/ TrackedCloseWindow
    \/ RatioDrawCmd
    \/ RatioSetYrangeCmd

SpecTracked == Init /\ [][NextTracked]_vars

(* ------------------------ the edges of the bins ----------------------- *)
\* TH1.GetBinLowEdge(i) of an axis of bins of equal width from xlow
GetBinLowEdge(xlow, width, i) == xlow + (i - 1) * width

\* 'for i in range(1, n_bins)': the bins the loop visits
EdgeBins(n_bins) == [i \in 1..(n_bins - 1) |-> i]

\* RatioTHnF.bin_edges_x: the low edges of the bins the loop visits, then
\* 'edges.append(edges[-1] + GetBinWidth(n_bins))', where edges[-1] of an
\* empty list raises IndexError
bin_edges_x(s, h, xlow, width) ==
    LET n_bins == Len(s.objs[h].bins)
        edges  == [k \in DOMAIN EdgeBins(n_bins) |->
                      GetBinLowEdge(xlow, width, EdgeBins(n_bins)[k])]
    IN  IF edges = <<>> THEN Raise(s, "IndexError")
        ELSE Ret(s, Append(edges, Last(edges) + width))

\* a ratio of 1 to MaxEdgeBins bins of equal width is registered; its axis
\* starts at xlow
InitEdges ==
    /\ \E n \in 1..MaxEdgeBins, xlow \in 0..MaxLow, width \in 1..MaxWidth :
          /\ objs = <<[NewObj("ratio_0", "TH1F", TRUE, FALSE, 0, FALSE)
                          EXCEPT !.bins = [i \in 1..n |-> <<0, 1>>]]>>
          /\ last = [op |-> "axis", c |-> 0, arg |-> <<xlow, width>>, exc |-> "",
                     ret |-> None, pre |-> <<>>]
    /\ gHistos = <<1>>
    /\ gCanvs = <<>>
    /\ gTrees = 0
    /\ canvs = <<>>
    /\ gPad = NoPad
    /\ legs = <<>>

\* gHistos[-1].bin_edges_x
BinEdgesCmd ==
    /\ last.op = "axis"
    /\ LET r == bin_edges_x(St, Last(gHistos), last.arg[1], last.arg[2])
       IN  Commit(r, Obs("bin_edges_x", 0, last.arg, r, <<>>))

NextEdges == BinEdgesCmd

SpecEdges == InitEdges /\ [][NextEdges]_vars

(* ------------------ legends on canvases with histograms --------------- *)
\* add_legend on a canvas of gCanvs, remembering the colours and the
\* legends it found
LegendCmd ==
    \E c \in Range(gCanvs) : \E labels \in LabelLists, colors \in ColorLists :
        LET r == Canvas_add_legend(St, c, labels, colors)
        IN  Commit(r, Obs("add_legend", c, <<labels, colors>>, r,
                          [prims  |-> IF canvs[c].valid
                                      THEN canvs[c].pads["main"].prims ELSE <<>>,
                           objs   |-> objs,
                           legend |-> canvs[c].legend,
                           legs   |-> legs]))

NextLegend ==
    \/ LoadCmd
    \/ DrawCmd
    \/ LegendCmd
    \/ CloseWindow

SpecLegend == Init /\ [][NextLegend]_vars

(* ---------------------- the contents of a ratio ----------------------- *)
\* the contents a 1-D histogram of NBins bins may have
Contents == [1..NBins -> 0..MaxContent]

FilledTH1F(name, bins) ==
    [NewObj(name, "TH1F", FALSE, SumBins(bins, 1) = 0, 0, FALSE) EXCEPT !.bins = bins]

\* two histograms of any contents are registered: the numerator and the
\* denominator of the ratios to come
InitRatio ==
    /\ \E bn \in Contents, bd \in Contents :
           objs = <<FilledTH1F("h_num", bn), FilledTH1F("h_denum", bd)>>
    /\ gHistos = <<1, 2>>
    /\ gCanvs = <<>>
    /\ gTrees = 0
    /\ canvs = <<>>
    /\ gPad = NoPad
    /\ legs = <<>>
    /\ last = [op |-> "init", c |-> 0, arg |-> <<>>, exc |-> "", ret |-> None,
               pre |-> <<>>]

\* RatioTHnF(gHistos[-2], gHistos[-1], normalised)
RatioTHnFCmd ==
    \E normalised \in BOOLEAN :
        LET r == RatioTHnF_init(St, 1, 2, normalised)
        IN  Commit(r, Obs("RatioTHnF", 0, <<normalised>>, r, <<>>))

NextRatio == RatioTHnFCmd

SpecRatio == InitRatio /\ [][NextRatio]_vars

(* ======================= the registry: cleanup ======================== *)
\* C1: cleanup(include_histos=True) removes from gHistos exactly the
\* objects whose name no pad of a canvas still in gCanvs hosts, and keeps
\* every object whose name such a pad hosts.
C1_CleanupRemovesExactlyOrphans ==
    (last.op = "cleanup" /\ last.arg[1]) =>
        \A h \in Range(last.pre.gHistos) :
            (h \in Range(gHistos)) <=> (h \in last.pre.hosted)

\* C2: after a cleanup() call returns, no handler in gCanvs has an invalid
\* canvas handle, and every canvas that had a valid handle is still listed.
C2_CleanupLeavesNoClosedCanvas ==
    (last.op = "cleanup" /\ last.exc = "") =>
        /\ \A i \in 1..Len(gCanvs) : canvs[gCanvs[i]].valid
        /\ \A c \in last.pre.valid : c \in Range(gCanvs)

(* ==================== the registry: generated names ==================== *)
\* the template _get_unique_hname expands: '_{0}' appended when the
\* placeholder is missing
Expanded(t) == IF HasPH(t) THEN t ELSE t \o <<"_", PH>>

\* the smallest n >= from whose name is not Taken
SmallestFrom(t, from, Taken(_)) ==
    CHOOSE n \in from..(from + Len(objs)) :
        /\ ~Taken(Format(Expanded(t), n))
        /\ \A m \in from..(n - 1) : Taken(Format(Expanded(t), m))

IsHistogram(name) == DirGet(St, name) # 0
IsTH1F(name) == DirType(St, name) = "TH1F"

C10_TwoDrawsNumberedZeroOne ==
    /\ gHistos = <<>> =>
          \A t \in {u \in Templates : HasPH(u)} :
              /\ get_unique_hname(St, t) = Format(t, 0)
              /\ get_unique_hname(th1f(St, get_unique_hname(St, t)).s, t) = Format(t, 1)
    /\ (last.op = "draw" /\ last.exc = "" /\ HasPH(last.arg[2])) =>
          /\ last.pre.len = 0 => /\ last.ret[1] = Format(last.arg[2], 0)
                                 /\ \E h \in Range(gHistos) :
                                       objs[h].name = Format(last.arg[2], 0)
          /\ last.pre.second  => /\ last.ret[1] = Format(last.arg[2], 1)
                                 /\ \E h \in Range(gHistos) :
                                       objs[h].name = Format(last.arg[2], 1)
                                 /\ Len(gHistos) = 2

\* the second of two draw() calls in a row has returned
C10_Witness ==
    last.op = "draw" /\ last.exc = "" /\ last.pre.second

(* ===================== the layout of a canvas ========================= *)
\* C3: on a canvas that has only its main pad, the first cd_ratio() that
\* returns gives True and every later one gives False, whatever cd,
\* put_texts, full_pad and add_legend calls come in between.
C3_CdRatioTrueOnceThenFalse ==
    (last.op = "cd_ratio" /\ last.exc = "") =>
        /\ last.pre.ncdr = 0 => (last.pre.pads = {"main"} /\ last.ret = Some(TRUE))
        /\ last.pre.ncdr > 0 => last.ret = Some(FALSE)

\* a later cd_ratio() has returned, after another operation on the canvas
C3_Witness ==
    /\ last.op = "cd_ratio" /\ last.exc = "" /\ last.pre.ncdr > 0
    /\ canvs[last.c].text_pad = "ratio"
    /\ canvs[last.c].legend # 0

\* C4: when cd_ratio() has added the ratio pad, the main pad is at
\* (0, 0.3, 1, 1), the ratio pad at (0, 0, 1, 0.3), and the ratio pad's
\* stored y-label is "ratio".
C4_RatioPadGeometry ==
    (last.op = "cd_ratio" /\ last.exc = "" /\ last.ret = Some(TRUE)) =>
        /\ canvs[last.c].pads["main"].rect = <<0, 3, 10, 10>>
        /\ canvs[last.c].pads["ratio"].rect = <<0, 0, 10, 3>>
        /\ canvs[last.c].pads["ratio"].ylabel = "ratio"

\* cd_ratio() has added the ratio pad
C4_Witness ==
    /\ last.op = "cd_ratio" /\ last.exc = "" /\ last.ret = Some(TRUE)
    /\ "ratio" \in DOMAIN canvs[last.c].pads

\* a rectangle no part of which is in the visible [0,1]x[0,1]
OutsideVisible(rect) ==
    rect[3] < 0 \/ rect[1] > 10 \/ rect[4] < 0 \/ rect[2] > 10

\* C5: after full_pad(name) the pad name is at (0, 0, 1, 1) and every
\* other pad of the canvas is at the hidden rectangle (0, -0.9, 1, -0.1),
\* outside the visible area; full_pad("ratio") on a main+ratio canvas
\* leaves main hidden.
C5_FullPadHidesOthers ==
    (last.op = "full_pad" /\ last.exc = "") =>
        LET pads == canvs[last.c].pads
        IN  /\ pads[last.arg[1]].rect = <<0, 0, 10, 10>>
            /\ \A n \in DOMAIN pads \ {last.arg[1]} :
                   /\ pads[n].rect = <<0, -9, 10, -1>>
                   /\ OutsideVisible(pads[n].rect)

\* full_pad("ratio") has returned on a main+ratio canvas
C5_Witness ==
    /\ last.op = "full_pad" /\ last.exc = "" /\ last.arg = <<"ratio">>
    /\ DOMAIN canvs[last.c].pads = {"main", "ratio"}
    /\ canvs[last.c].pads["main"].rect = HiddenRect

\* C6: put_texts(title, xlabel, ylabel) keeps each cached text whose
\* argument is None and replaces each whose argument is given, the empty
\* string included; no pad rectangle and not the text pad changes.
C6_PutTextsPartialUpdate ==
    (last.op = "put_texts") =>
        LET cv == canvs[last.c]
            Kept(f, a) == cv.texts[f] = IF a = None THEN last.pre.texts[f] ELSE a[1]
        IN  /\ Kept("title", last.arg[1])
            /\ Kept("xlabel", last.arg[2])
            /\ Kept("ylabel", last.arg[3])
            /\ cv.text_pad = last.pre.text_pad
            /\ DOMAIN cv.pads = DOMAIN last.pre.rects
            /\ \A n \in DOMAIN cv.pads : cv.pads[n].rect = last.pre.rects[n]

\* put_texts has replaced a text by the empty string and kept another
C6_Witness ==
    /\ last.op = "put_texts" /\ last.exc = ""
    /\ last.arg[1] = Some("") /\ last.pre.texts.title = "t"
    /\ last.arg[2] = None /\ last.pre.texts.xlabel = "t"
    /\ DOMAIN last.pre.rects = {"main", "ratio"}

(* ======================== the ratio of two histograms ================= *)
\* C7: with normalised=False the constructor raises nothing and each bin
\* of the ratio is numerator/denominator where the denominator is not 0
\* (1 where the two are equal) and 0 where the denominator is 0.
C7_RatioBinsUnnormalised ==
    (last.op = "RatioTHnF" /\ last.arg = <<FALSE>>) =>
        /\ last.exc = ""
        /\ LET ratio == objs[last.ret[1]].bins
           IN  /\ Len(ratio) = NBins
               /\ \A i \in 1..NBins :
                    /\ ratio[i][2] > 0
                    /\ objs[2].bins[i] # 0 =>
                           ratio[i][1] * objs[2].bins[i] = objs[1].bins[i] * ratio[i][2]
                    /\ (objs[2].bins[i] # 0 /\ objs[1].bins[i] = objs[2].bins[i]) =>
                           ratio[i] = <<1, 1>>
                    /\ objs[2].bins[i] = 0 => ratio[i][1] = 0

\* an unnormalised ratio with a bin of denominator 0 over a filled
\* numerator bin, and a bin where the two are equal and not 0
C7_Witness ==
    /\ last.op = "RatioTHnF" /\ last.arg = <<FALSE>> /\ last.exc = ""
    /\ \E i \in 1..NBins : objs[2].bins[i] = 0 /\ objs[1].bins[i] # 0
    /\ \E i \in 1..NBins : objs[2].bins[i] # 0 /\ objs[1].bins[i] = objs[2].bins[i]

\* C8: whatever the numerator, the denominator and normalised are, a sum
\* of weights of 0 included, the constructor completes, and the bins with
\* a denominator of 0 are 0.
C8_NoDivisionErrorEscapes ==
    (last.op = "RatioTHnF") =>
        /\ last.exc = ""
        /\ \A i \in 1..NBins :
               objs[2].bins[i] = 0 => objs[last.ret[1]].bins[i][1] = 0

(* ================== the registry: names, passes, draw ================= *)
\* C11: the name _get_unique_hname returns is the name of no live
\* histogram of the directory, 1-D or 2-D, so draw() with a '{0}' template
\* overwrites nothing.
C11_UniqueNameIsFresh ==
    \A t \in Templates : DirGet(St, get_unique_hname(St, t)) = 0

\* C19: cleanup() without include_histos leaves gHistos and every
\* histogram as they were, also when it takes closed canvases out of
\* gCanvs.
C19_PlainCleanupKeepsHistos ==
    /\ (last.op = "cleanup" /\ ~last.arg[1]) =>
          (last.exc = "" /\ gHistos = last.pre.gHistos)
    /\ cleanup(St, FALSE).exc = ""
    /\ cleanup(St, FALSE).s.gHistos = gHistos
    /\ cleanup(St, FALSE).s.objs = objs

\* a plain cleanup() has removed a closed canvas while a histogram that
\* draw() filled, and that no remaining pad hosts, is registered
C19_Witness ==
    /\ last.op = "cleanup" /\ ~last.arg[1] /\ last.exc = ""
    /\ Len(gCanvs) < Len(last.pre.gCanvs)
    /\ last.pre.hosted = {}
    /\ \E h \in Range(gHistos) : ~objs[h].empty

\* C20: a draw() of a 1-D or 2-D variable from a loaded tree leaves at
\* least one canvas in gCanvs and the histogram on the main pad of the
\* last of them: the canvas it created when none remained, the most
\* recent one otherwise.
C20_DrawOnLatestCanvas ==
    (last.op = "draw" /\ Len(last.arg[1]) <= 2 /\ gTrees > 0) =>
        /\ last.exc = ""
        /\ Len(gCanvs) >= 1
        /\ \E h \in Range(canvs[Last(gCanvs)].pads["main"].prims) :
               objs[h].name = last.ret[1]

(* ================= the handlers: pads without histograms ============== *)
\* the rectangles SetPad is tried with
ValidRects == {FullRect, MainRatioRect, RatioRect, <<2, 2, 5, 5>>}

\* C14: on a live pad that lists no histogram, Update() and set_yrange()
\* return without raising and leave the pad, its stored title, x-label
\* and y-label included, as it was; so they do after SetPad with any
\* valid rectangle.
C14_UpdateWithoutPrimitives ==
    \A c \in Range(gCanvs) : \A p \in PadNamesOf(St, c) :
        (canvs[c].valid /\ canvs[c].pads[p].prims = <<>>) =>
            /\ Pad_Update(St, c, p) = Ok(St)
            /\ Pad_set_yrange(St, c, p, 0, RatioYmax) = Ok(St)
            /\ \A dim \in ValidRects :
                   LET r == Pad_SetPad(St, c, p, dim)
                   IN  /\ r.exc = ""
                       /\ Pad_Update(r.s, c, p) = Ok(r.s)
                       /\ Pad_set_yrange(r.s, c, p, 0, RatioYmax) = Ok(r.s)

\* cd_ratio() has returned, its Update having gone over two pads that
\* list nothing
C14_Witness ==
    /\ last.op = "cd_ratio" /\ last.exc = ""
    /\ \A p \in {"main", "ratio"} : canvs[last.c].pads[p].prims = <<>>

\* the orders in which the names of a set of pads can be listed
PadOrders(S) ==
    {f \in [1..Cardinality(S) -> S] : \A i, j \in DOMAIN f : f[i] = f[j] => i = j}

RECURSIVE JoinNames(_, _)
JoinNames(names, i) ==
    IF i > Len(names) THEN ""
    ELSE names[i] \o (IF i < Len(names) THEN ", " ELSE "") \o JoinNames(names, i + 1)

\* C15: repr() of a handler whose canvas is invalid is the marker
\* "<CanvasHandler object -- empty shell only!>"; of a valid one it names
\* the canvas and lists each pad once as <canvas name>_<pad name>; it
\* never raises and changes nothing.
C15_ReprDegradesToShell ==
    \A c \in Range(gCanvs) :
        LET r == Canvas_repr(St, c)
        IN  /\ r.exc = "" /\ r.s = St
            /\ ~canvs[c].valid =>
                   r.ret = Some("<CanvasHandler object -- empty shell only!>")
            /\ canvs[c].valid =>
                   \E f \in PadOrders(DOMAIN canvs[c].pads) :
                       r.ret = Some("<CanvasHandler object (\"" \o canvs[c].name
                                    \o "\" with {"
                                    \o JoinNames([i \in DOMAIN f |->
                                           canvs[c].name \o "_" \o f[i]], 1)
                                    \o "} )>")

\* a handler of two pads whose window was closed is still in gCanvs
C15_Witness ==
    \E c \in Range(gCanvs) :
        ~canvs[c].valid /\ DOMAIN canvs[c].pads = {"main", "ratio"}

\* C16: on a handler whose canvas is invalid, Close, GetName, add_pad,
\* SaveAs and repr() raise nothing, and neither do active_canvas,
\* active_pad and exit_handler while such a handler is in gCanvs.
C16_InvalidHandleTolerated ==
    \A c \in Range(gCanvs) :
        ~canvs[c].valid =>
            /\ Canvas_Close(St, c).exc = ""
            /\ Canvas_repr(St, c).exc = ""
            /\ Canvas_GetName(St, c).exc = ""
            /\ Canvas_add_pad(St, c, "aux", FullRect).exc = ""
            /\ Canvas_SaveAs(St, c).exc = ""
            /\ active_canvas(St).exc = ""
            /\ active_pad(St).exc = ""
            /\ exit_handler(St).exc = ""

\* a rectangle inside the canvas: 0 <= min < max <= 1 on both axes
InUnitSquare(rect) ==
    /\ 0 <= rect[1] /\ rect[1] < rect[3] /\ rect[3] <= 10
    /\ 0 <= rect[2] /\ rect[2] < rect[4] /\ rect[4] <= 10

\* C17 as stated: the rectangle of every pad of every canvas is inside
\* the canvas.
C17_RectanglesInUnitSquare ==
    \A c \in Range(gCanvs) : \A p \in DOMAIN canvs[c].pads :
        InUnitSquare(canvs[c].pads[p].rect)

\* C17 amended: the rectangle of every pad of every canvas is inside the
\* canvas or is the rectangle (0, -0.9, 1, -0.1) of a hidden pad.
C17_RectanglesInUnitSquareOrHidden ==
    \A c \in Range(gCanvs) : \A p \in DOMAIN canvs[c].pads :
        \/ InUnitSquare(canvs[c].pads[p].rect)
        \/ canvs[c].pads[p].rect = <<0, -9, 10, -1>>

\* after full_pad and a put_texts, one pad fills the canvas and the other
\* is hidden
C17_Witness ==
    /\ last.op = "put_texts" /\ last.exc = ""
    /\ \E p, q \in DOMAIN canvs[last.c].pads :
          /\ canvs[last.c].pads[p].rect = FullRect
          /\ canvs[last.c].pads[q].rect = HiddenRect

\* C18: every handler of gCanvs has the pad "main" and a text pad that is
\* one of its pads; the text pad of a new handler is "main", and it only
\* changes to name in a full_pad(name) that returns, so a full_pad with
\* an unknown name leaves it as it was.
C18_OneTextPad ==
    [][\A c \in Range(gCanvs') :
          /\ "main" \in DOMAIN canvs'[c].pads
          /\ canvs'[c].text_pad \in DOMAIN canvs'[c].pads
          /\ c \notin Range(gCanvs) => canvs'[c].text_pad = "main"
          /\ (c \in Range(gCanvs) /\ canvs'[c].text_pad # canvs[c].text_pad) =>
                 /\ last'.op = "full_pad" /\ last'.exc = "" /\ last'.c = c
                 /\ last'.arg = <<canvs'[c].text_pad>>]_vars

\* full_pad with an unknown name has raised on a handler whose text pad a
\* full_pad("ratio") had changed
C18_Witness ==
    /\ last.op = "full_pad" /\ last.exc = "KeyError"
    /\ canvs[last.c].text_pad = "ratio"

\* C12: add_legend with as many labels as the main pad has primitives and
\* fewer colours than that returns, gives the first primitives the colours
\* of the list as line and marker colour, and leaves the colours of the
\* others as they were.  A histogram that was drawn twice on the pad is two
\* primitives and one object: it has the colour of its last place among
\* the first ones.
C12_ShortColorList ==
    (/\ last.op = "add_legend"
     /\ last.arg[2] # None
     /\ Len(last.arg[1]) = Len(last.pre.prims)
     /\ Len(last.arg[2][1]) < Len(last.pre.prims)
     /\ canvs[last.c].valid) =>
        /\ last.exc = ""
        /\ canvs[last.c].pads["main"].prims = last.pre.prims
        /\ \A h \in Range(last.pre.prims) :
              LET I == {i \in 1..Len(last.arg[2][1]) : last.pre.prims[i] = h}
                  m == CHOOSE i \in I : \A j \in I : j <= i
              IN  IF I # {}
                  THEN /\ objs[h].lcolor = last.arg[2][1][m]
                       /\ objs[h].mcolor = last.arg[2][1][m]
                  ELSE /\ objs[h].lcolor = last.pre.objs[h].lcolor
                       /\ objs[h].mcolor = last.pre.objs[h].mcolor

\* two primitives, two labels, one colour: the second primitive keeps the
\* colour an earlier legend gave it
C12_Witness ==
    /\ last.op = "add_legend" /\ last.exc = ""
    /\ Len(last.pre.prims) = 2 /\ Len(last.arg[1]) = 2
    /\ last.arg[2] = Some(<<"kRed">>)
    /\ last.pre.prims[1] # last.pre.prims[2]
    /\ last.pre.objs[last.pre.prims[2]].lcolor # DefaultColor
    /\ objs[last.pre.prims[1]].lcolor # last.pre.objs[last.pre.prims[1]].lcolor

\* C13: after an add_legend that returns, the legend of the canvas is the
\* new legend it returned, which is not deleted; the legend it replaced
\* was not deleted before and is deleted once now, and no other legend
\* is touched.  No legend is ever deleted twice, and the legend of a
\* canvas is not deleted.
C13_OneLegendPerCanvas ==
    /\ \A k \in DOMAIN legs : legs[k] <= 1
    /\ \A c \in Range(gCanvs) :
          canvs[c].legend # 0 => legs[canvs[c].legend] = 0
    /\ (last.op = "add_legend" /\ last.exc = "") =>
          /\ last.ret = Some(canvs[last.c].legend)
          /\ last.ret[1] \notin DOMAIN last.pre.legs
          /\ legs[last.ret[1]] = 0
          /\ \A k \in DOMAIN last.pre.legs :
                IF k = last.pre.legend
                THEN last.pre.legs[k] = 0 /\ legs[k] = 1
                ELSE legs[k] = last.pre.legs[k]

\* a second legend has replaced the first one of the canvas
C13_Witness ==
    /\ last.op = "add_legend" /\ last.exc = ""
    /\ last.pre.legend # 0
    /\ legs[last.pre.legend] = 1

\* C21: bin_edges_x of a histogram of n bins, n >= 1, raises nothing and
\* is the list of the n+1 edges of the bins, in increasing order from the
\* low edge of the first bin to the high edge of the last one.
C21_AllBinEdges ==
    last.op = "bin_edges_x" =>
        LET n == Len(objs[Last(gHistos)].bins) IN
        /\ last.exc = ""
        /\ Len(last.ret[1]) = n + 1
        /\ \A i \in 1..(n + 1) :
              last.ret[1][i] = last.arg[1] + (i - 1) * last.arg[2]

\* the value a text has after put_texts was given arg for it
TextAfter(arg, old) == IF arg = None THEN old ELSE arg[1]

\* C22: the module-level put_texts, called while a pad of a canvas of gCanvs
\* is active, returns, gives the canvas of the active pad the texts it was
\* passed, and leaves the texts of every other canvas as they were.
C22_PutTextsOnActiveCanvas ==
    (/\ last.op = "lookat.put_texts"
     /\ gPad # NoPad
     /\ \A c \in Range(gCanvs) : canvs[c].valid) =>
        /\ last.exc = ""
        /\ \A c \in Range(gCanvs) :
              canvs[c].texts =
                  IF c = gPad.c
                  THEN [title  |-> TextAfter(last.arg[1], last.pre.texts[c].title),
                        xlabel |-> TextAfter(last.arg[2], last.pre.texts[c].xlabel),
                        ylabel |-> TextAfter(last.arg[3], last.pre.texts[c].ylabel)]
                  ELSE last.pre.texts[c]

\* the pads of the canvases of gCanvs that list an object of the name of h
HostingPads(h) ==
    {cp \in {<<c, p>> : c \in Range(gCanvs), p \in Range(AllPadNames)} :
        /\ cp[2] \in DOMAIN canvs[cp[1]].pads
        /\ objs[h].name \in PrimNames(St, cp[1], cp[2])}

\* C23: when every canvas of gCanvs is open, every registered histogram
\* is alive and one of them is hosted by two or more pads,
\* cleanup(include_histos=True) raises nothing and keeps that histogram.
C23_DoubleHostedSurvivesCleanup ==
    \A h \in Range(gHistos) :
        (/\ \A c \in Range(gCanvs) : canvs[c].valid
         /\ \A g \in Range(gHistos) : objs[g].alive
         /\ Cardinality(HostingPads(h)) >= 2) =>
            /\ cleanup(St, TRUE).exc = ""
            /\ h \in Range(cleanup(St, TRUE).s.gHistos)

\* C24: ratio.set_yrange(low, high) raises nothing, leaves exactly the live
\* pads of the tracked list, in their order, and gives the range to the
\* first histogram of every one of them.
C24_SetYrangePrunesStalePads ==
    last.op = "set_yrange" =>
        /\ last.exc = ""
        /\ objs[last.c].pads = SelectSeq(last.pre.pads, LAMBDA pad : ~StalePad(St, pad))
        /\ \A i \in 1..Len(objs[last.c].pads) :
              LET pad == objs[last.c].pads[i][1]
              IN  canvs[pad.c].pads[pad.p].prims # <<>> =>
                      objs[canvs[pad.c].pads[pad.p].prims[1]].yrange = <<0, 5>>

\* C25: a ratio.Draw on the active pad raises nothing; afterwards the
\* tracked list is the one before the call, with the active pad appended
\* when it was not in it, and has no pad twice; the first histogram of the
\* active pad has the y-range [0, 2.1] when the ratio is normalised, and
\* no y-range has changed when it is not.
C25_DrawTracksActivePad ==
    last.op = "Draw" =>
        LET h   == last.c
            pad == Some([c |-> last.pre.gPad.c, p |-> last.pre.gPad.p])
        IN  /\ last.exc = ""
            /\ objs[h].pads =
                  IF \E i \in 1..Len(last.pre.pads) : last.pre.pads[i] = pad
                  THEN last.pre.pads ELSE Append(last.pre.pads, pad)
            /\ \A i, j \in 1..Len(objs[h].pads) :
                  objs[h].pads[i] = objs[h].pads[j] => i = j
            /\ IF objs[h].normalised
               THEN objs[canvs[pad[1].c].pads[pad[1].p].prims[1]].yrange
                        = <<0, RatioYmax>>
               ELSE Yranges = last.pre.yranges

\* C26: on an open canvas, full_pad(name) with the name of one of its pads
\* returns, makes name the text pad, sets the cached y-label to the
\* y-label that pad stored before the call, keeps the cached title and
\* x-label, and leaves the pad storing the cached title, x-label and
\* y-label; a second full_pad(name) changes nothing.
C26_FullPadMovesTexts ==
    \A c \in Range(gCanvs) : \A name \in DOMAIN canvs[c].pads :
        canvs[c].valid =>
            LET r  == Canvas_full_pad(St, c, name)
                cv == r.s.canvs[c]
            IN  /\ r.exc = ""
                /\ cv.text_pad = name
                /\ cv.texts = [canvs[c].texts EXCEPT
                                  !.ylabel = canvs[c].pads[name].ylabel]
                /\ cv.pads[name].title = cv.texts.title
                /\ cv.pads[name].xlabel = cv.texts.xlabel
                /\ cv.pads[name].ylabel = cv.texts.ylabel
                /\ Canvas_full_pad(r.s, c, name) = Ok(r.s)

\* full_pad("ratio") has moved the title "t" to the ratio pad and taken the
\* y-label of that pad where the main pad had another one
C26_Witness ==
    /\ last.op = "full_pad" /\ last.exc = "" /\ last.arg = <<"ratio">>
    /\ canvs[last.c].text_pad = "ratio"
    /\ canvs[last.c].texts.title = "t"
    /\ canvs[last.c].pads["ratio"].title = "t"
    /\ canvs[last.c].texts.ylabel = "ratio"
    /\ canvs[last.c].pads["main"].ylabel = "t"

\* C27: add_legend on an open canvas whose main pad lists more primitives
\* than labels were given returns, makes the new legend the legend of the
\* canvas, and leaves the colours of the primitives past the labels as
\* they were.
C27_FewerLabelsThanPrimitives ==
    (/\ last.op = "add_legend"
     /\ canvs[last.c].valid
     /\ Len(last.arg[1]) < Len(last.pre.prims)) =>
        /\ last.exc = ""
        /\ last.ret = Some(canvs[last.c].legend)
        /\ canvs[last.c].legend \notin DOMAIN last.pre.legs
        /\ \A i \in (Len(last.arg[1]) + 1)..Len(last.pre.prims) :
              LET h == last.pre.prims[i]
              IN  h \notin {last.pre.prims[j] : j \in 1..Len(last.arg[1])} =>
                      /\ objs[h].lcolor = last.pre.objs[h].lcolor
                      /\ objs[h].mcolor = last.pre.objs[h].mcolor

RECURSIVE IsSubseq(_, _)
\* a is b with some entries left out
IsSubseq(a, b) ==
    IF a = <<>> THEN TRUE
    ELSE IF b = <<>> THEN FALSE
    ELSE IF a[1] = b[1] THEN IsSubseq(Tail(a), Tail(b))
    ELSE IsSubseq(a, Tail(b))

\* whether the command of this step appends a histogram when it returns
AppendsHisto(obs) ==
    \/ obs.op = "th1f"
    \/ obs.op = "draw_ratio" /\ obs.exc = ""
    \/ obs.op = "draw" /\ obs.exc = "" /\ obs.arg[2][1] # "+"

====
